---- MODULE Spec2Model ----
(***************************************************************************)
(* UK marginal tax rates: the banded tax evaluator calculate_tax_and_ni,   *)
(* the income sweep calculate_tax (UK_marginal_tax_rates.py) and the       *)
(* policy change estimator calculate_effect_of_change                      *)
(* (UK_tax_change_calculator.py).                                          *)
(*                                                                         *)
(* Arithmetic.  The code computes in binary floating point; the model      *)
(* computes the same expressions exactly, in fixed units:                  *)
(*   gross incomes, thresholds, allowances     pounds                      *)
(*   taxable income, personal allowance        pence      (pounds * 100)   *)
(*   rates                                     percent    (0.20 is 20)     *)
(*   tax amounts                               pence * percent, that is    *)
(*                                             1/10000 of a pound          *)
(* An amount is a record [big, units] standing for big * 10^12 + units, so *)
(* that the sentinel threshold 1e12 of the code and incomes beyond it are  *)
(* exact.  The units part of every amount of the model is far below 10^12  *)
(* in absolute value, which makes the comparison below the numeric one.    *)
(***************************************************************************)
EXTENDS Integers, Sequences, FiniteSets, TLC

VARIABLES tax_data, INCLUDE_MARRIAGE_ALLOWANCE, INCLUDE_CHILDCARE, CHILDREN,
          last, ref,
          RESOLUTION, MAX_INCOME, sweep_args, i, data,
          df, index, rows, total_static_tax_after_policy_change,
          total_dynamic_tax_after_policy_change,
          pc

config_vars == <<INCLUDE_MARRIAGE_ALLOWANCE, INCLUDE_CHILDCARE, CHILDREN>>
eval_vars   == <<last, ref>>
sweep_vars  == <<RESOLUTION, MAX_INCOME, sweep_args, i, data>>
effect_vars == <<df, index, rows, total_static_tax_after_policy_change,
                 total_dynamic_tax_after_policy_change>>
vars == <<tax_data, config_vars, eval_vars, sweep_vars, effect_vars, pc>>

----------------------------------------------------------------------------
(* Amounts *)

Amt(n) == [big |-> 0, units |-> n]
Zero == Amt(0)
Plus(a, b) == [big |-> a.big + b.big, units |-> a.units + b.units]
Minus(a, b) == [big |-> a.big - b.big, units |-> a.units - b.units]
Times(a, n) == [big |-> a.big * n, units |-> a.units * n]
Lt(a, b) == a.big < b.big \/ (a.big = b.big /\ a.units < b.units)
Leq(a, b) == a = b \/ Lt(a, b)
\* Python's min(a, b) and max(a, b): a unless b is strictly smaller (larger)
Min2(a, b) == IF Lt(b, a) THEN b ELSE a
Max2(a, b) == IF Lt(a, b) THEN b ELSE a

\* band["threshold"] = 1e12
Sentinel == [big |-> 1, units |-> 0]

STUDENT_LOAN_RATE == 9
STUDENT_LOAN_THRESHOLD == 27295

----------------------------------------------------------------------------
(* Tax datasets, as load_data_from_json returns them.  A band is a dict    *)
(* with an optional "threshold" (pounds) and a "rate" (percent); keys that *)
(* hold a space in the JSON are written with an underscore.  Child benefit *)
(* amounts are weekly, in pence.                                           *)

Band(t, r) == [threshold |-> Amt(t), rate |-> r]
TopBand(r) == [rate |-> r]

Scalars(spa, awt, awr, start, end, first, subsequent) ==
    [statutory_personal_allowance |-> spa,
     allowance_withdrawal_threshold |-> awt,
     allowance_withdrawal_rate |-> awr,
     marriage_allowance |-> 10,
     marriage_allowance_max_earnings |-> 5,
     child_benefit |-> [first |-> first, subsequent |-> subsequent],
     HICBC_start |-> start,
     HICBC_end |-> end,
     childcare_min_earnings |-> 3,
     childcare_max_earnings |-> 9,
     childcare_subsidy_per_child |-> 2000,
     childcare_max_children |-> 2]

WithBands(s, it, ni) ==
    [k \in DOMAIN s \cup {"income_tax", "NI"} |->
        IF k = "income_tax" THEN it ELSE IF k = "NI" THEN ni ELSE s[k]]

WithoutNI(s, it) ==
    [k \in DOMAIN s \cup {"income_tax"} |-> IF k = "income_tax" THEN it ELSE s[k]]

\* three income tax bands, three NI bands, allowance tapered above 8
SmallRegime ==
    WithBands(Scalars(2, 8, 50, 6, 10, 2560, 1695),
              <<Band(4, 20), Band(7, 40), TopBand(45)>>,
              <<Band(3, 0), Band(9, 8), TopBand(2)>>)

\* two bands per list, no personal allowance
TwoBandRegime ==
    WithBands(Scalars(0, 8, 50, 6, 10, 2560, 1695),
              <<Band(4, 20), TopBand(40)>>,
              <<Band(6, 10), TopBand(2)>>)

\* allowance 12570, bands 50270 at 20% then 40%, no NI bands
ExampleRegime ==
    WithBands(Scalars(12570, 100000, 50, 60000, 80000, 0, 0),
              <<Band(50270, 20), TopBand(40)>>,
              <<>>)

\* one unbounded income tax band, no allowance, no NI bands
FlatRegime ==
    WithBands(Scalars(0, 8, 0, 6, 10, 2560, 1695),
              <<TopBand(30)>>,
              <<>>)

\* malformed: a band above the first lacks its rate
NoRateRegime ==
    WithBands(Scalars(2, 8, 50, 6, 10, 2560, 1695),
              <<Band(4, 20), [threshold |-> Amt(7)], TopBand(45)>>,
              <<Band(3, 10), [threshold |-> Amt(9)]>>)

\* malformed: no NI band list at all
NoListRegime ==
    WithoutNI(Scalars(2, 8, 50, 6, 10, 2560, 1695),
              <<Band(4, 20), TopBand(40)>>)

DatasetNames == {"rUK 2024-25"}

----------------------------------------------------------------------------
(* calculate_tax_and_ni, UK_marginal_tax_rates.py *)

\* faulty variant: the sentinel is stored only after the band has been used
RECURSIVE WalkBandsInjectAfterUse(_, _, _, _, _)
WalkBandsInjectAfterUse(bands, k, taxable_net_income, last_threshold, total_tax) ==
    IF k > Len(bands)
    THEN [status |-> "ok", value |-> total_tax, bands |-> bands]
    ELSE LET band0 == bands[k]
             band == IF "threshold" \in DOMAIN band0 THEN band0
                     ELSE IF "rate" \in DOMAIN band0
                          THEN [threshold |-> Sentinel, rate |-> band0.rate]
                          ELSE [threshold |-> Sentinel]
             bands1 == [bands EXCEPT ![k] = band]
         IN  IF "rate" \notin DOMAIN band
             THEN [status |-> "KeyError", value |-> Zero, bands |-> bands1]
             ELSE LET threshold == IF "threshold" \in DOMAIN band0
                                   THEN Times(band.threshold, 100) ELSE Zero
                      gross_income_in_band ==
                          Minus(Min2(taxable_net_income, threshold), last_threshold)
                      tax_in_band == Times(gross_income_in_band, band.rate)
                      total1 == Plus(total_tax, tax_in_band)
                  IN  IF Leq(taxable_net_income, threshold)
                      THEN [status |-> "ok", value |-> total1, bands |-> bands1]
                      ELSE WalkBandsInjectAfterUse(bands1, k + 1, taxable_net_income,
                                                   threshold, total1)

\* the band loop from band number k on; the result carries the band list
\* as the loop leaves it
RECURSIVE WalkBands(_, _, _, _, _)
WalkBands(bands, k, taxable_net_income, last_threshold, total_tax) ==
    IF k > Len(bands)
    THEN [status |-> "ok", value |-> total_tax, bands |-> bands]
    ELSE LET band0 == bands[k]
             band == IF "threshold" \in DOMAIN band0 THEN band0
                     ELSE IF "rate" \in DOMAIN band0
                          THEN [threshold |-> Sentinel, rate |-> band0.rate]
                          ELSE [threshold |-> Sentinel]
             bands1 == [bands EXCEPT ![k] = band]
         IN  IF "rate" \notin DOMAIN band
             THEN [status |-> "KeyError", value |-> Zero, bands |-> bands1]
             ELSE LET threshold == Times(band.threshold, 100)
                      gross_income_in_band ==
                          Minus(Min2(taxable_net_income, threshold), last_threshold)
                      tax_in_band == Times(gross_income_in_band, band.rate)
                      total1 == Plus(total_tax, tax_in_band)
                  IN  IF Leq(taxable_net_income, threshold)
                      THEN [status |-> "ok", value |-> total1, bands |-> bands1]
                      ELSE WalkBands(bands1, k + 1, taxable_net_income,
                                     threshold, total1)

\* faulty variant: the marriage allowance is given whatever the switch says
ModifiedPersonalAllowanceAlwaysMarried(rd, gross_income, marriage) ==
    IF Lt(Amt(rd.allowance_withdrawal_threshold), gross_income)
    THEN Max2(Zero,
              Minus(Amt(100 * rd.statutory_personal_allowance),
                    Times(Minus(gross_income, Amt(rd.allowance_withdrawal_threshold)),
                          rd.allowance_withdrawal_rate)))
    ELSE Amt(rd.statutory_personal_allowance * (100 + rd.marriage_allowance))

\* personal allowance after taper and marriage allowance, in pence
ModifiedPersonalAllowance(rd, gross_income, marriage) ==
    IF Lt(Amt(rd.allowance_withdrawal_threshold), gross_income)
    THEN Max2(Zero,
              Minus(Amt(100 * rd.statutory_personal_allowance),
                    Times(Minus(gross_income, Amt(rd.allowance_withdrawal_threshold)),
                          rd.allowance_withdrawal_rate)))
    ELSE IF marriage /\ Lt(gross_income, Amt(rd.marriage_allowance_max_earnings))
         THEN Amt(rd.statutory_personal_allowance * (100 + rd.marriage_allowance))
         ELSE Amt(100 * rd.statutory_personal_allowance)

TotalChildBenefit(rd, children) ==
    52 * (rd.child_benefit.first + rd.child_benefit.subsequent * (children - 1)) * 100

\* faulty variant: the taper gives the clawed back fraction instead of the rest
ChildBenefitGivenReversed(rd, gross_income, do_child_benefit, children) ==
    IF do_child_benefit /\ children > 0
    THEN IF Lt(gross_income, Amt(rd.HICBC_start))
         THEN TotalChildBenefit(rd, children)
         ELSE IF Lt(Amt(rd.HICBC_end), gross_income)
              THEN 0
              ELSE (TotalChildBenefit(rd, children)
                      * (gross_income.units - rd.HICBC_start))
                   \div (rd.HICBC_end - rd.HICBC_start)
    ELSE 0

\* faulty variant: the benefit is kept in full up to HICBC_end
ChildBenefitGivenNoTaper(rd, gross_income, do_child_benefit, children) ==
    IF do_child_benefit /\ children > 0
    THEN IF Lt(Amt(rd.HICBC_end), gross_income)
         THEN 0
         ELSE TotalChildBenefit(rd, children)
    ELSE 0

\* what the child benefit branch subtracts from total_tax.  The modelled
\* datasets have a HICBC width that divides 5200, so the tapered amount is a
\* whole number of tax units at every whole-pound income.
ChildBenefitGiven(rd, gross_income, do_child_benefit, children) ==
    IF do_child_benefit /\ children > 0
    THEN IF Lt(gross_income, Amt(rd.HICBC_start))
         THEN TotalChildBenefit(rd, children)
         ELSE IF Lt(Amt(rd.HICBC_end), gross_income)
              THEN 0
              ELSE TotalChildBenefit(rd, children)
                   - (TotalChildBenefit(rd, children)
                        * (gross_income.units - rd.HICBC_start))
                     \div (rd.HICBC_end - rd.HICBC_start)
    ELSE 0

ChildcareGiven(rd, gross_income, childcare, children) ==
    IF childcare /\ children > 0
       /\ Lt(Amt(rd.childcare_min_earnings), gross_income)
       /\ Lt(gross_income, Amt(rd.childcare_max_earnings))
    THEN rd.childcare_subsidy_per_child
         * (IF rd.childcare_max_children < children
            THEN rd.childcare_max_children ELSE children) * 10000
    ELSE 0

StudentLoan(gross_income, do_student_loan) ==
    IF do_student_loan /\ Lt(Amt(STUDENT_LOAN_THRESHOLD), gross_income)
    THEN Times(Minus(gross_income, Amt(STUDENT_LOAN_THRESHOLD)), 100 * STUDENT_LOAN_RATE)
    ELSE Zero

\* the call on tax data td: its outcome and the tax data it leaves behind
calculate_tax_and_ni(td, gross_income, country_and_year, tax_type, do_cb, do_sl) ==
    LET relevant_data == td[country_and_year]
        taxable_net_income ==
            IF tax_type = "income_tax"
            THEN Max2(Zero, Minus(Times(gross_income, 100),
                                  ModifiedPersonalAllowance(relevant_data, gross_income,
                                                            INCLUDE_MARRIAGE_ALLOWANCE)))
            ELSE Times(gross_income, 100)
        total_tax ==
            IF tax_type = "income_tax"
            THEN Plus(Amt(0 - ChildBenefitGiven(relevant_data, gross_income,
                                                do_cb, CHILDREN)
                            - ChildcareGiven(relevant_data, gross_income,
                                             INCLUDE_CHILDCARE, CHILDREN)),
                      StudentLoan(gross_income, do_sl))
            ELSE Zero
    IN  IF tax_type \notin DOMAIN relevant_data
        THEN [status |-> "KeyError", value |-> Zero, tax_data |-> td]
        ELSE LET w == WalkBands(relevant_data[tax_type], 1, taxable_net_income,
                                Zero, total_tax)
             IN  [status |-> w.status, value |-> w.value,
                  tax_data |-> [td EXCEPT ![country_and_year] =
                                   [relevant_data EXCEPT ![tax_type] = w.bands]]]

----------------------------------------------------------------------------
(* Direct calls of the evaluator *)

GrossIncomes ==
    {Amt(n) : n \in {0, 3, 4, 6, 8, 10, 11, 60000}} \cup {Plus(Sentinel, Amt(5))}

\* calculate_tax passes None for both flags of an NI call
CallArgs ==
    {[gross_income |-> g, country_and_year |-> n, tax_type |-> t,
      do_child_benefit |-> cb, do_student_loan |-> sl] :
        g \in GrossIncomes, n \in DatasetNames, t \in {"income_tax"},
        cb \in BOOLEAN, sl \in BOOLEAN}
    \cup
    {[gross_income |-> g, country_and_year |-> n, tax_type |-> t,
      do_child_benefit |-> FALSE, do_student_loan |-> FALSE] :
        g \in GrossIncomes, n \in DatasetNames, t \in {"NI"}}

NoCall == [status |-> "none"]

CallRecord(a, r) == [args |-> a, status |-> r.status, value |-> r.value]

\* the loaded file with the module level switches of the run
Configurations ==
    {[tax_data |-> [n \in DatasetNames |-> SmallRegime], marriage |-> m,
      childcare |-> c, children |-> ch] :
        m \in BOOLEAN, c \in BOOLEAN, ch \in {0, 3}}
    \cup
    {[tax_data |-> [n \in DatasetNames |-> TwoBandRegime], marriage |-> m,
      childcare |-> FALSE, children |-> 3] : m \in BOOLEAN}
    \cup
    {[tax_data |-> [n \in DatasetNames |-> r], marriage |-> FALSE,
      childcare |-> FALSE, children |-> 3] :
        r \in {ExampleRegime, FlatRegime, NoRateRegime, NoListRegime}}

Init ==
    /\ \E c \in Configurations :
          /\ tax_data = c.tax_data
          /\ INCLUDE_MARRIAGE_ALLOWANCE = c.marriage
          /\ INCLUDE_CHILDCARE = c.childcare
          /\ CHILDREN = c.children
    /\ last = NoCall
    /\ ref = NoCall
    /\ RESOLUTION = 1 /\ MAX_INCOME = 0 /\ sweep_args = <<>> /\ i = 0 /\ data = <<>>
    /\ df = <<>> /\ index = 0 /\ rows = <<>>
    /\ total_static_tax_after_policy_change = Zero
    /\ total_dynamic_tax_after_policy_change = [value |-> Zero, finite |-> TRUE]
    /\ pc = "idle"

\* one call of calculate_tax_and_ni; ref keeps one earlier call of the run
Call ==
    \E a \in CallArgs :
        \E r \in {calculate_tax_and_ni(tax_data, a.gross_income, a.country_and_year,
                                       a.tax_type, a.do_child_benefit, a.do_student_loan)} :
            /\ last' = CallRecord(a, r)
            /\ ref' \in IF ref = NoCall THEN {NoCall, CallRecord(a, r)} ELSE {ref}
            /\ tax_data' = r.tax_data
            /\ UNCHANGED <<config_vars, sweep_vars, effect_vars, pc>>

Next == Call

Spec == Init /\ [][Next]_vars

----------------------------------------------------------------------------
(* Properties of direct calls *)

Called(c) == c.status # "none"
BandsOf(c) == tax_data[c.args.country_and_year][c.args.tax_type]
RegimeOf(c) == tax_data[c.args.country_and_year]
HasBands(c) == c.args.tax_type \in DOMAIN RegimeOf(c)

Unbounded(band) == "threshold" \notin DOMAIN band \/ band.threshold = Sentinel

TwoBandShape(bands) ==
    /\ Len(bands) = 2
    /\ "threshold" \in DOMAIN bands[1] /\ "rate" \in DOMAIN bands[1]
    /\ bands[1].threshold # Sentinel
    /\ Unbounded(bands[2]) /\ "rate" \in DOMAIN bands[2]

NoAllowance(c) ==
    c.args.tax_type = "NI" \/ RegimeOf(c).statutory_personal_allowance = 0

NoAdjustments(c) ==
    /\ ~c.args.do_child_benefit /\ ~c.args.do_student_loan
    /\ ~INCLUDE_CHILDCARE /\ ~INCLUDE_MARRIAGE_ALLOWANCE

TwoBandTax(bands, g) ==
    IF Lt(bands[1].threshold, g)
    THEN Plus(Times(bands[1].threshold, 100 * bands[1].rate),
              Times(Minus(g, bands[1].threshold), 100 * bands[2].rate))
    ELSE Times(g, 100 * bands[1].rate)

\* C1: on a two band list [{T1, r1}, {r2}] with no allowance and no
\* adjustment, every call returns T1*r1 + (income - T1)*r2 above T1 and
\* income*r1 up to T1, whatever the gross income.
C1_TwoBandFormula ==
    (Called(last) /\ HasBands(last) /\ TwoBandShape(BandsOf(last))
       /\ NoAllowance(last) /\ NoAdjustments(last))
    => (last.status = "ok"
        /\ last.value = TwoBandTax(BandsOf(last), last.args.gross_income))

SortedNonNegative(bands) ==
    /\ \A k \in 1..Len(bands) : "rate" \in DOMAIN bands[k] /\ bands[k].rate >= 0
    /\ \A k \in 1..(Len(bands) - 1) :
          /\ "threshold" \in DOMAIN bands[k]
          /\ Unbounded(bands[k + 1]) \/ Lt(bands[k].threshold, bands[k + 1].threshold)

SameButIncome(c, d) ==
    /\ c.args.country_and_year = d.args.country_and_year
    /\ c.args.tax_type = d.args.tax_type
    /\ c.args.do_child_benefit = d.args.do_child_benefit
    /\ c.args.do_student_loan = d.args.do_student_loan

Ordered(c, d) ==
    Leq(c.args.gross_income, d.args.gross_income) => Leq(c.value, d.value)

Comparable ==
    /\ Called(ref) /\ Called(last) /\ SameButIncome(ref, last)
    /\ ref.status = "ok" /\ last.status = "ok"
    /\ SortedNonNegative(BandsOf(last))

\* C2 as stated: with sorted bands and non-negative rates, two calls that
\* differ in gross income only return taxes in the order of the incomes,
\* under every setting of the switches.
C2_Monotone == Comparable => (Ordered(ref, last) /\ Ordered(last, ref))

ChildcareInPlay == INCLUDE_CHILDCARE /\ CHILDREN > 0

\* C2 amended: the same, when the childcare subsidy is not in play
\* (childcare switch off, or no children).
C2_MonotoneWithoutChildcare ==
    (Comparable /\ ~ChildcareInPlay) => (Ordered(ref, last) /\ Ordered(last, ref))

C2_Witness ==
    /\ Comparable /\ ~ChildcareInPlay
    /\ last.args.tax_type = "income_tax" /\ last.args.do_child_benefit
    /\ CHILDREN > 0 /\ INCLUDE_MARRIAGE_ALLOWANCE
    /\ Lt(ref.args.gross_income, last.args.gross_income)
    /\ Lt(ref.value, last.value)

\* C3: a call returns what an earlier call of the run with the same
\* arguments returned, whichever calls came between them.
C3_HistoryIndependent ==
    (Called(ref) /\ Called(last) /\ last.args = ref.args)
    => (last.status = ref.status /\ last.value = ref.value)

\* the repeated call stops below the top band, which other calls have
\* given the sentinel threshold since the file was loaded
C3_Witness ==
    /\ Called(ref) /\ Called(last) /\ last.args = ref.args /\ last.status = "ok"
    /\ Len(BandsOf(last)) > 1
    /\ Leq(Times(last.args.gross_income, 100), Times(BandsOf(last)[1].threshold, 100))
    /\ "threshold" \in DOMAIN BandsOf(last)[Len(BandsOf(last))]
    /\ BandsOf(last)[Len(BandsOf(last))].threshold = Sentinel

\* C4: no step changes the loaded tax data.
C4_Pure == [][tax_data' = tax_data]_vars

IsExample(c) ==
    /\ Called(c) /\ HasBands(c)
    /\ c.args.tax_type = "income_tax"
    /\ c.args.gross_income = Amt(60000)
    /\ RegimeOf(c).statutory_personal_allowance = 12570
    /\ RegimeOf(c).allowance_withdrawal_threshold >= 60000
    /\ TwoBandShape(BandsOf(c))
    /\ BandsOf(c)[1].threshold = Amt(50270) /\ BandsOf(c)[1].rate = 20
    /\ BandsOf(c)[2].rate = 40
    /\ NoAdjustments(c)

ExampleTaxable ==
    Minus(Times(Amt(60000), 100),
          ModifiedPersonalAllowance(RegimeOf(last), Amt(60000),
                                    INCLUDE_MARRIAGE_ALLOWANCE))

\* C5 as stated: allowance 12570, bands 50270 at 20% then 40%, gross income
\* 60000: taxable 47430 and income tax 11432.
C5_Example ==
    IsExample(last)
    => (last.status = "ok" /\ ExampleTaxable = Amt(4743000)
        /\ last.value = Amt(11432 * 10000))

\* C5 amended: the same call has taxable 47430 and returns 9486, the whole
\* taxable amount lying in the first band (47430 <= 50270).
C5_ExampleFirstBandOnly ==
    IsExample(last)
    => (last.status = "ok" /\ ExampleTaxable = Amt(4743000)
        /\ last.value = Amt(9486 * 10000))

C5_Witness == IsExample(last) /\ last.status = "ok"

\* ref without child benefit, last the same income tax call with it
ChildBenefitPair ==
    /\ Called(ref) /\ Called(last)
    /\ ref.status = "ok" /\ last.status = "ok"
    /\ ref.args.tax_type = "income_tax"
    /\ ~ref.args.do_child_benefit /\ last.args.do_child_benefit
    /\ last.args = [ref.args EXCEPT !.do_child_benefit = TRUE]
    /\ CHILDREN > 0

Subtracted == Minus(ref.value, last.value)

\* C6: the child benefit flag lowers income tax by the full annual benefit up
\* to and at HICBC_start, by nothing at and above HICBC_end, and between them
\* by benefit * (HICBC_end - g) / (HICBC_end - HICBC_start).
C6_ChildBenefitTaper ==
    ChildBenefitPair =>
        LET rd == RegimeOf(last)
            g == last.args.gross_income
            benefit == 52 * (rd.child_benefit.first
                             + rd.child_benefit.subsequent * (CHILDREN - 1)) * 100
        IN  /\ Leq(g, Amt(rd.HICBC_start)) => Subtracted = Amt(benefit)
            /\ Leq(Amt(rd.HICBC_end), g) => Subtracted = Zero
            /\ (Lt(Amt(rd.HICBC_start), g) /\ Lt(g, Amt(rd.HICBC_end)))
               => Times(Subtracted, rd.HICBC_end - rd.HICBC_start)
                  = Amt(benefit * (rd.HICBC_end - g.units))

C6_Witness ==
    /\ ChildBenefitPair
    /\ Lt(Amt(RegimeOf(last).HICBC_start), last.args.gross_income)
    /\ Lt(last.args.gross_income, Amt(RegimeOf(last).HICBC_end))
    /\ Lt(Zero, Subtracted)

Malformed(c) ==
    \/ ~HasBands(c)
    \/ \E k \in 1..Len(BandsOf(c)) : "rate" \notin DOMAIN BandsOf(c)[k]

\* C9: a call on a regime without the requested band list, or with a band
\* that has no rate, ends in an error.
C9_FailFast == (Called(last) /\ Malformed(last)) => last.status = "KeyError"

----------------------------------------------------------------------------
(* calculate_tax: the sweep over gross incomes *)

MaxSweepIncome == 7
Resolutions == {1, 2, 3}

\* np.arange(start, stop, step) for integers and step > 0
Arange(start, stop, step) ==
    [k \in 1..((stop - start + step - 1) \div step) |-> start + (k - 1) * step]

gross_incomes == Arange(0, MAX_INCOME + RESOLUTION, RESOLUTION)

\* a marginal rate is kept as the fraction num / den of tax units per pound
\* faulty variant: the difference is taken from the previous row's net income
MarginalRateFromNet(idx, total_tax_ni, rows_so_far, step) ==
    IF idx = 0 THEN [num |-> Zero, den |-> 1]
    ELSE [num |-> Minus(total_tax_ni, rows_so_far[idx].net_income), den |-> step]

\* row idx (from 0) of the table, rows_so_far holding the rows before it
MarginalRate(idx, total_tax_ni, rows_so_far, step) ==
    IF idx = 0 THEN [num |-> Zero, den |-> 1]
    ELSE [num |-> Minus(total_tax_ni, rows_so_far[idx].total_tax_ni), den |-> step]

SweepRowOf(gross_income, income_tax, employee_ni, idx, rows_so_far, step) ==
    [gross_income |-> gross_income,
     income_tax |-> income_tax,
     employee_ni |-> employee_ni,
     total_tax_ni |-> Plus(income_tax, employee_ni),
     net_income |-> Minus(Times(Amt(gross_income), 10000), Plus(income_tax, employee_ni)),
     marginal_rate |-> MarginalRate(idx, Plus(income_tax, employee_ni), rows_so_far, step)]

\* the three ways __main__ calls calculate_tax
SweepFlags == {<<FALSE, FALSE>>, <<TRUE, FALSE>>, <<TRUE, TRUE>>}

InitSweep ==
    /\ \E c \in Configurations :
          /\ tax_data = c.tax_data
          /\ INCLUDE_MARRIAGE_ALLOWANCE = c.marriage
          /\ INCLUDE_CHILDCARE = c.childcare
          /\ CHILDREN = c.children
    /\ RESOLUTION \in Resolutions
    /\ MAX_INCOME \in 0..MaxSweepIncome
    /\ last = NoCall /\ ref = NoCall
    /\ sweep_args = <<>> /\ i = 0 /\ data = <<>>
    /\ df = <<>> /\ index = 0 /\ rows = <<>>
    /\ total_static_tax_after_policy_change = Zero
    /\ total_dynamic_tax_after_policy_change = [value |-> Zero, finite |-> TRUE]
    /\ pc = "idle"

\* calculate_tax(dataset, do_child_benefit, do_student_loan) is entered
SweepStart ==
    /\ pc \in {"idle", "done"}
    /\ \E n \in DOMAIN tax_data, f \in SweepFlags :
          sweep_args' = [dataset |-> n, do_child_benefit |-> f[1],
                         do_student_loan |-> f[2]]
    /\ i' = 0 /\ data' = <<>>
    /\ pc' = "sweep"
    /\ UNCHANGED <<tax_data, config_vars, eval_vars, RESOLUTION, MAX_INCOME, effect_vars>>

\* one pass of the loop body: both evaluator calls and the appended row
SweepRow ==
    /\ pc = "sweep" /\ i < Len(gross_incomes)
    /\ \E it \in {calculate_tax_and_ni(tax_data, Amt(gross_incomes[i + 1]),
                                      sweep_args.dataset, "income_tax",
                                      sweep_args.do_child_benefit,
                                      sweep_args.do_student_loan)} :
       \E ni \in {IF it.status = "ok"
                  THEN calculate_tax_and_ni(it.tax_data, Amt(gross_incomes[i + 1]),
                                            sweep_args.dataset, "NI", FALSE, FALSE)
                  ELSE it} :
          /\ tax_data' = ni.tax_data
          /\ IF ni.status = "ok"
             THEN /\ data' = Append(data, SweepRowOf(gross_incomes[i + 1], it.value,
                                                     ni.value, i, data, RESOLUTION))
                  /\ i' = i + 1
                  /\ pc' = "sweep"
             ELSE /\ pc' = "KeyError"
                  /\ UNCHANGED <<data, i>>
    /\ UNCHANGED <<config_vars, eval_vars, RESOLUTION, MAX_INCOME, sweep_args, effect_vars>>

\* the loop is over and the table is returned
SweepReturn ==
    /\ pc = "sweep" /\ i = Len(gross_incomes)
    /\ pc' = "done"
    /\ UNCHANGED <<tax_data, config_vars, eval_vars, sweep_vars, effect_vars>>

NextSweep == SweepStart \/ SweepRow \/ SweepReturn

SpecSweep == InitSweep /\ [][NextSweep]_vars

\* C7: the returned rows are the multiples of the step from 0 in ascending
\* order, none above MAX_INCOME, every multiple up to MAX_INCOME once.
C7_SweepCoverage ==
    pc = "done" =>
        /\ \A k \in 1..Len(data) : data[k].gross_income = (k - 1) * RESOLUTION
        /\ \A k \in 1..Len(data) : data[k].gross_income <= MAX_INCOME
        /\ \A m \in 0..MAX_INCOME :
              m % RESOLUTION = 0
              => Cardinality({k \in 1..Len(data) : data[k].gross_income = m}) = 1

FlatSweep ==
    /\ pc \in {"sweep", "done"}
    /\ LET rd == tax_data[sweep_args.dataset]
       IN  /\ "income_tax" \in DOMAIN rd /\ "NI" \in DOMAIN rd
           /\ Len(rd.income_tax) = 1 /\ Unbounded(rd.income_tax[1])
           /\ "rate" \in DOMAIN rd.income_tax[1]
           /\ rd.NI = <<>>
           /\ rd.statutory_personal_allowance = 0
    /\ ~sweep_args.do_child_benefit /\ ~sweep_args.do_student_loan
    /\ ~INCLUDE_CHILDCARE /\ ~INCLUDE_MARRIAGE_ALLOWANCE

TaxAt(g, tax_type) ==
    calculate_tax_and_ni(tax_data, Amt(g), sweep_args.dataset, tax_type,
                         tax_type = "income_tax" /\ sweep_args.do_child_benefit,
                         tax_type = "income_tax" /\ sweep_args.do_student_loan).value

----------------------------------------------------------------------------
(* UK_tax_change_calculator.py: calculate_effect_of_change *)

DATASET_INITIAL == "rUK 2024-25"
DATASET_POLICY_CHANGE == "Reform UK manifesto"

\* income ceilings in ascending order, elasticities in thousandths
ELASTICITY_OF_TAXABLE_INCOME ==
    <<[ceiling |-> 50000, eti |-> 15], [ceiling |-> 80000, eti |-> 100],
      [ceiling |-> 150000, eti |-> 200], [ceiling |-> 300000, eti |-> 350],
      [ceiling |-> 500000, eti |-> 550], [ceiling |-> 1000000000, eti |-> 750]>>

\* 1.00, in hundredths
ETI_SENSITIVITY_FACTOR == 100
GROSS_INCOME_PERTUBATION == 1000
\* 1.16, in hundredths
WAGE_GROWTH_SINCE_2020_21 == 116

\* the elasticity as the fraction num / den
find_elasticity_for_income_level(gross_income) ==
    LET table == ELASTICITY_OF_TAXABLE_INCOME
        hits == {k \in 1..Len(table) : gross_income <= table[k].ceiling}
        k == IF hits = {} THEN Len(table)
             ELSE CHOOSE h \in hits : \A o \in hits : h <= o
    IN  [num |-> ETI_SENSITIVITY_FACTOR * table[k].eti, den |-> 100000]

\* calculate_tax_and_ni of the calculator: allowance taper, then the band loop
change_calculate_tax_and_ni(td, gross_income, relevant_dataset, tax_type) ==
    LET relevant_data == td[relevant_dataset]
        taxable_net_income ==
            IF tax_type = "income_tax"
            THEN Max2(Zero, Minus(Times(gross_income, 100),
                                  ModifiedPersonalAllowance(relevant_data, gross_income,
                                                            FALSE)))
            ELSE Times(gross_income, 100)
    IN  IF tax_type \notin DOMAIN relevant_data
        THEN [status |-> "KeyError", value |-> Zero, tax_data |-> td]
        ELSE LET w == WalkBands(relevant_data[tax_type], 1, taxable_net_income,
                                Zero, Zero)
             IN  [status |-> w.status, value |-> w.value,
                  tax_data |-> [td EXCEPT ![relevant_dataset] =
                                   [relevant_data EXCEPT ![tax_type] = w.bands]]]

return_total_tax(td, gross_income, dataset) ==
    LET income_tax == change_calculate_tax_and_ni(td, gross_income, dataset, "income_tax")
        ni == change_calculate_tax_and_ni(income_tax.tax_data, gross_income, dataset, "NI")
    IN  IF income_tax.status # "ok" THEN income_tax
        ELSE [status |-> ni.status, value |-> Plus(income_tax.value, ni.value),
              tax_data |-> ni.tax_data]

friendly_number(n) ==
    IF 10 <= n % 100 /\ n % 100 <= 20 THEN <<n, "th">>
    ELSE IF n % 10 = 1 THEN <<n, "st">>
    ELSE IF n % 10 = 2 THEN <<n, "nd">>
    ELSE IF n % 10 = 3 THEN <<n, "rd">>
    ELSE <<n, "th">>

RECURSIVE Gcd(_, _)
Gcd(a, b) == IF b = 0 THEN a ELSE Gcd(b, a % b)
Abs(n) == IF n < 0 THEN 0 - n ELSE n

\* faulty variant: the new retention rate over the old one is taken for the
\* relative change, the old one not being subtracted
DynamicGrossIncomeFromRatio(gross_income, change, retention, elasticity) ==
    LET ratio == change + retention
        g1 == Gcd(Abs(ratio), Abs(retention))
        n1 == ratio \div g1
        d1 == retention \div g1
        g0 == Gcd(elasticity.num, elasticity.den)
        en == elasticity.num \div g0
        ed == elasticity.den \div g0
        g2 == Gcd(Abs(n1), ed)
        g3 == Gcd(en, Abs(d1))
        num == (n1 \div g2) * (en \div g3)
        den == (d1 \div g3) * (ed \div g2)
    IN  IF ratio = 0 \/ en = 0 THEN gross_income
        ELSE IF den < 0 THEN gross_income + (gross_income * (0 - num)) \div (0 - den)
        ELSE gross_income + (gross_income * num) \div den

\* gross_income * (1 + (change / retention) * elasticity), in whole pounds
\* (rounded down); the fractions are reduced before they are multiplied
DynamicGrossIncome(gross_income, change, retention, elasticity) ==
    LET g1 == Gcd(Abs(change), Abs(retention))
        n1 == change \div g1
        d1 == retention \div g1
        g0 == Gcd(elasticity.num, elasticity.den)
        en == elasticity.num \div g0
        ed == elasticity.den \div g0
        g2 == Gcd(Abs(n1), ed)
        g3 == Gcd(en, Abs(d1))
        num == (n1 \div g2) * (en \div g3)
        den == (d1 \div g3) * (ed \div g2)
    IN  IF change = 0 \/ en = 0 THEN gross_income
        ELSE IF den < 0 THEN gross_income + (gross_income * (0 - num)) \div (0 - den)
        ELSE gross_income + (gross_income * num) \div den

\* Rates per record are kept as numerators over GROSS_INCOME_PERTUBATION *
\* 10000 tax units (a rate of 100% is that many tax units per perturbation).
RateUnit == GROSS_INCOME_PERTUBATION * 10000

\* the figures of one pass up to the division by retention_rate_initial
RecordFigures(td, record) ==
    LET gross_income == (record.income * WAGE_GROWTH_SINCE_2020_21) \div 100
        t1 == return_total_tax(td, Amt(gross_income), DATASET_INITIAL)
        t2 == return_total_tax(t1.tax_data, Amt(gross_income + GROSS_INCOME_PERTUBATION),
                               DATASET_INITIAL)
        t3 == return_total_tax(t2.tax_data, Amt(gross_income), DATASET_POLICY_CHANGE)
        t4 == return_total_tax(t3.tax_data, Amt(gross_income + GROSS_INCOME_PERTUBATION),
                               DATASET_POLICY_CHANGE)
        marginal_rate_initial == Minus(t2.value, t1.value).units
        marginal_rate_after_policy_change == Minus(t4.value, t3.value).units
    IN  [status |-> IF \A t \in {t1, t2, t3, t4} : t.status = "ok"
                    THEN "ok" ELSE "KeyError",
         percentile |-> record.percentile,
         gross_income |-> gross_income,
         total_tax_initial |-> t1.value,
         marginal_rate_initial |-> marginal_rate_initial,
         retention_rate_initial |-> RateUnit - marginal_rate_initial,
         total_tax_after_policy_change |-> t3.value,
         marginal_rate_after_policy_change |-> marginal_rate_after_policy_change,
         retention_rate_after_policy_change |-> RateUnit - marginal_rate_after_policy_change,
         tax_data |-> t4.tax_data]

\* the report row; the f-strings of the code render these numbers
ReportRow(f, dynamic_gross_income, dynamic_tax, finite) ==
    [Percentile |-> friendly_number(f.percentile),
     gross_income |-> f.gross_income,
     total_tax_initial |-> f.total_tax_initial,
     marginal_rate_initial |-> f.marginal_rate_initial,
     total_tax_after_policy_change |-> f.total_tax_after_policy_change,
     marginal_rate_after_policy_change |-> f.marginal_rate_after_policy_change,
     delta_marginal_rate |-> f.marginal_rate_after_policy_change - f.marginal_rate_initial,
     retention_rate_change |-> f.retention_rate_after_policy_change - f.retention_rate_initial,
     dynamic_gross_income |-> dynamic_gross_income,
     dynamic_tax_after_policy_change |-> dynamic_tax,
     dynamic_tax_change |-> Minus(dynamic_tax, f.total_tax_initial),
     finite |-> finite]

\* the datasets of the estimator: thresholds on taxable income, in pounds
CurrentRegime ==
    WithBands(Scalars(12570, 100000, 50, 60000, 80000, 0, 0),
              <<Band(37700, 20), Band(125140, 40), TopBand(45)>>,
              <<Band(12570, 0), Band(50270, 8), TopBand(2)>>)

ProposedRegime ==
    WithBands(Scalars(20000, 100000, 50, 60000, 80000, 0, 0),
              <<Band(50000, 20), TopBand(40)>>,
              <<Band(12570, 0), Band(50270, 8), TopBand(2)>>)

\* a band taxed at 100%, no NI
CliffRegime ==
    WithBands(Scalars(0, 100000, 0, 60000, 80000, 0, 0),
              <<Band(20000, 20), Band(40000, 100), TopBand(45)>>,
              <<>>)

TaxFile(initial, proposed) ==
    [n \in {DATASET_INITIAL, DATASET_POLICY_CHANGE} |->
        IF n = DATASET_INITIAL THEN initial ELSE proposed]

TaxFiles ==
    {TaxFile(CurrentRegime, ProposedRegime), TaxFile(CurrentRegime, CurrentRegime),
     TaxFile(CliffRegime, CurrentRegime), TaxFile(ProposedRegime, CliffRegime),
     TaxFile(CliffRegime, CliffRegime)}

\* rows of the percentile spreadsheet: rank and income before uprating
PercentileRecords ==
    {[percentile |-> 1, income |-> 12500], [percentile |-> 50, income |-> 25000],
     [percentile |-> 90, income |-> 50000], [percentile |-> 99, income |-> 150000]}

MaxRecords == 2

PercentileTables ==
    UNION {[1..n -> PercentileRecords] : n \in 0..MaxRecords}

InitEffect ==
    /\ tax_data \in TaxFiles
    /\ INCLUDE_MARRIAGE_ALLOWANCE = FALSE /\ INCLUDE_CHILDCARE = FALSE /\ CHILDREN = 3
    /\ last = NoCall /\ ref = NoCall
    /\ RESOLUTION = 1 /\ MAX_INCOME = 0 /\ sweep_args = <<>> /\ i = 0 /\ data = <<>>
    /\ df \in PercentileTables
    /\ index = 0 /\ rows = <<>>
    /\ total_static_tax_after_policy_change = Zero
    /\ total_dynamic_tax_after_policy_change = [value |-> Zero, finite |-> TRUE]
    /\ pc = "effect"

\* The quotient by a zero retention_rate_initial is inf or nan (numpy
\* scalars); dynamic_gross_income follows it.  The evaluator then stops at
\* the first band (comparison true, as for income 0) or runs through every
\* band (as for an income above every threshold), by the sign of the
\* numerator: positive gives inf, negative -inf, zero nan.
TaxDataAfterNonFinite(td, f) ==
    LET huge == Plus(Sentinel, Sentinel)
        it == change_calculate_tax_and_ni(
                  td, IF f.retention_rate_after_policy_change > 0 THEN huge ELSE Zero,
                  DATASET_POLICY_CHANGE, "income_tax")
        ni == change_calculate_tax_and_ni(
                  it.tax_data,
                  IF f.retention_rate_after_policy_change < 0 THEN Zero ELSE huge,
                  DATASET_POLICY_CHANGE, "NI")
    IN  ni.tax_data

\* one pass of the loop over the percentile rows
EffectRow ==
    /\ pc = "effect" /\ index < Len(df)
    /\ \E f \in {RecordFigures(tax_data, df[index + 1])} :
          IF f.status # "ok"
          THEN /\ pc' = "KeyError"
               /\ tax_data' = f.tax_data
               /\ UNCHANGED effect_vars
          ELSE IF f.retention_rate_initial = 0
          THEN \E raised \in BOOLEAN :
                  IF raised
                  THEN \* Python floats: ZeroDivisionError leaves the function
                       /\ pc' = "ZeroDivisionError"
                       /\ tax_data' = f.tax_data
                       /\ UNCHANGED effect_vars
                  ELSE \* numpy scalars: the row and the dynamic total are built
                       \* on an inf or nan
                       /\ pc' = "effect"
                       /\ tax_data' = TaxDataAfterNonFinite(f.tax_data, f)
                       /\ rows' = Append(rows, ReportRow(f, 0, Zero, FALSE))
                       /\ total_static_tax_after_policy_change'
                          = Plus(total_static_tax_after_policy_change,
                                 Minus(f.total_tax_after_policy_change, f.total_tax_initial))
                       /\ total_dynamic_tax_after_policy_change'
                          = [total_dynamic_tax_after_policy_change EXCEPT !.finite = FALSE]
                       /\ index' = index + 1
                       /\ UNCHANGED df
          ELSE \E dynamic_gross_income \in
                    {DynamicGrossIncome(f.gross_income,
                        f.retention_rate_after_policy_change - f.retention_rate_initial,
                        f.retention_rate_initial,
                        find_elasticity_for_income_level(f.gross_income))} :
               \E t \in {return_total_tax(f.tax_data, Amt(dynamic_gross_income),
                                          DATASET_POLICY_CHANGE)} :
                  /\ pc' = IF t.status = "ok" THEN "effect" ELSE "KeyError"
                  /\ tax_data' = t.tax_data
                  /\ rows' = Append(rows, ReportRow(f, dynamic_gross_income, t.value, TRUE))
                  /\ total_static_tax_after_policy_change'
                     = Plus(total_static_tax_after_policy_change,
                            Minus(f.total_tax_after_policy_change, f.total_tax_initial))
                  /\ total_dynamic_tax_after_policy_change'
                     = [total_dynamic_tax_after_policy_change EXCEPT
                          !.value = Plus(@, Minus(t.value, f.total_tax_initial))]
                  /\ index' = index + 1
                  /\ UNCHANGED df
    /\ UNCHANGED <<config_vars, eval_vars, sweep_vars>>

\* the loop is over: the table is printed and the two totals are returned
EffectReturn ==
    /\ pc = "effect" /\ index = Len(df)
    /\ pc' = "returned"
    /\ UNCHANGED <<tax_data, config_vars, eval_vars, sweep_vars, effect_vars>>

NextEffect == EffectRow \/ EffectReturn

SpecEffect == InitEffect /\ [][NextEffect]_vars

\* C10: a record whose initial marginal rate is exactly 100% makes no
\* division by zero: the function does not stop on it, its row and the totals
\* hold no value built on the quotient, and the records after it are processed.
C10_ZeroRetentionGuarded ==
    /\ pc # "ZeroDivisionError"
    /\ total_dynamic_tax_after_policy_change.finite
    /\ \A k \in 1..Len(rows) : rows[k].finite
    /\ pc = "returned" => Len(rows) = Len(df)

\* a regime with the sentinel on every band that has no threshold: what the
\* band loop makes of it, whenever it gets there
WithSentinels(rd) ==
    [k \in DOMAIN rd |->
        IF k \in {"income_tax", "NI"}
        THEN [b \in 1..Len(rd[k]) |->
                 IF "threshold" \in DOMAIN rd[k][b] THEN rd[k][b]
                 ELSE [threshold |-> Sentinel, rate |-> rd[k][b].rate]]
        ELSE rd[k]]

SameRegime ==
    WithSentinels(tax_data[DATASET_INITIAL])
    = WithSentinels(tax_data[DATASET_POLICY_CHANGE])

NoZeroRetention ==
    \A k \in 1..Len(df) :
        RecordFigures(tax_data, df[k]).retention_rate_initial # 0

\* C11: when the proposed regime is the initial regime and no record has an
\* initial marginal rate of exactly 100%, every row has a retention rate
\* change of 0 and a dynamic gross income equal to the uprated gross income,
\* and the static and the dynamic total are 0.
C11_NullPolicyChange ==
    (pc \in {"effect", "returned"} /\ SameRegime /\ NoZeroRetention)
    => /\ \A k \in 1..Len(rows) :
             /\ rows[k].finite
             /\ rows[k].gross_income = (df[k].income * WAGE_GROWTH_SINCE_2020_21) \div 100
             /\ rows[k].retention_rate_change = 0
             /\ rows[k].dynamic_gross_income = rows[k].gross_income
             /\ rows[k].dynamic_tax_change = Zero
       /\ total_static_tax_after_policy_change = Zero
       /\ total_dynamic_tax_after_policy_change = [value |-> Zero, finite |-> TRUE]
       /\ pc = "returned" => Len(rows) = Len(df)

\* a returned batch of two records under one regime, one of them taxed at
\* the margin and in the band of a non-zero elasticity
C11_Witness ==
    /\ pc = "returned" /\ SameRegime /\ NoZeroRetention
    /\ Len(df) = 2 /\ Len(rows) = 2
    /\ \E k \in 1..Len(rows) :
          /\ rows[k].marginal_rate_initial > 0
          /\ rows[k].total_tax_initial # Zero
          /\ find_elasticity_for_income_level(rows[k].gross_income).num > 0

====
